---- MODULE Spec2Model ----
(***************************************************************************)
(* A model of the SMTA Signal Engine (src/server.js): the bounded price    *)
(* fetch (mapLimit), the allocation engine (buildSignals selection and     *)
(* weighting), the trade planner (computeTrades), the rebalance calendar   *)
(* (pickRebalanceDates) and the walk-forward backtest.                     *)
(*                                                                         *)
(* Real numbers are exact rationals [n, d] in lowest terms; money, weights *)
(* and volatilities are drawn from small sets of such values.              *)
(***************************************************************************)
EXTENDS Integers, Sequences, FiniteSets, TLC

----------------------------------------------------------------------------
(* Generic helpers *)

Min(a, b) == IF a < b THEN a ELSE b
Max(a, b) == IF a > b THEN a ELSE b
Abs(x) == IF x < 0 THEN -x ELSE x

RECURSIVE Gcd(_, _)
Gcd(a, b) == IF b = 0 THEN a ELSE Gcd(b, a % b)

\* The rational n/d in lowest terms with a positive denominator.
Rat(n, d) ==
    LET s == IF d < 0 THEN -1 ELSE 1
        g == Gcd(Abs(n), Abs(d))
    IN  [n |-> (s * n) \div g, d |-> (s * d) \div g]

RInt(k) == [n |-> k, d |-> 1]

\* The operations reduce before they multiply, to keep the numbers small.
RAdd(a, b) ==
    LET g == Gcd(a.d, b.d)
    IN  Rat(a.n * (b.d \div g) + b.n * (a.d \div g), (a.d \div g) * b.d)
RNeg(a) == [n |-> -a.n, d |-> a.d]
RSub(a, b) == RAdd(a, RNeg(b))
RMul(a, b) ==
    LET g1 == Gcd(Abs(a.n), b.d)
        g2 == Gcd(Abs(b.n), a.d)
    IN  Rat((a.n \div g1) * (b.n \div g2), (a.d \div g2) * (b.d \div g1))
RDiv(a, b) == RMul(a, Rat(b.d, b.n))
RLt(a, b) ==
    LET g == Gcd(a.d, b.d) IN a.n * (b.d \div g) < b.n * (a.d \div g)
RLe(a, b) == ~RLt(b, a)
RAbs(a) == [n |-> Abs(a.n), d |-> a.d]
RMax(a, b) == IF RLt(a, b) THEN b ELSE a
RMin(a, b) == IF RLt(b, a) THEN b ELSE a

\* Math.round: the nearest integer, a tie going up (toward +infinity).
MathRound(a) == (2 * a.n + a.d) \div (2 * a.d)

\* function clamp(x, a, b) { return Math.max(a, Math.min(b, x)); }
clamp(x, a, b) == RMax(a, RMin(b, x))

RECURSIVE RSum(_)
RSum(s) == IF s = <<>> THEN RInt(0) ELSE RAdd(Head(s), RSum(Tail(s)))

SeqToSet(s) == {s[k] : k \in 1..Len(s)}

\* Array.prototype.slice(0, k)
Take(s, k) == SubSeq(s, 1, Min(Max(k, 0), Len(s)))

----------------------------------------------------------------------------
(* Bounds of the model *)

\* The largest traded universe of the fetch model (SPY is added to it).
MaxUniverse == 5

\* The largest topN of the allocation model (the program allows 1..8).
MaxTopN == 4

\* The longest minimum holding period of the trade model, in days (the
\* program allows 0..90).
MaxMinHold == 10

\* The calendar window of the date model: CalendarDays consecutive days from
\* day CalendarStart (2024-12-26, a Thursday), so that the window crosses two
\* week boundaries, a month boundary and a year boundary inside ISO week 1.
CalendarStart == 20083
CalendarDays == 13

\* The longest list handed to invVolWeights on its own (the program allows 8).
MaxItems == 3

----------------------------------------------------------------------------
(* Program constants *)

\* mapLimit(uniqueTickers, 4, ...)
PoolCap == 4

\* if (dates.length < 10) return [];
MinDates == 10

\* const startIdx = 260: the warm-up of the backtest.
WarmUp == 260

\* if (!s || s.length < 260) continue;
MinHistory == 260

\* sma(closes, 200): null below 200 closes, and the regime is then unknown.
SmaLong == 200

\* buildWindowSeries(seriesByTicker.get("SPY"), date, 400)
SpyLookback == 400

\* buildWindowSeries(seriesByTicker.get(t), date, 900)
FeatureLookback == 900

\* The reserved regime/benchmark ticker.
SPY == "SPY"

\* defaultUniverse("etf") without the reserved ticker, in source order.
EtfNames == <<"QQQ", "IWM", "EFA", "EEM", "TLT", "IEF", "GLD", "DBC", "VNQ">>

----------------------------------------------------------------------------
(* Allocation engine: the pure part of buildSignals / computeWeightsAtDate. *)
(* A feature record is [ticker, score, vol]: score is the composite score   *)
(* in hundredths (an integer), vol the annualized volatility (a rational).  *)

\* Math.sqrt to three decimals: the largest k/1000 whose square is <= r.
RECURSIVE ISqrtBits(_, _, _)
ISqrtBits(x, k, bit) ==
    IF bit = 0 THEN k
    ELSE IF (k + bit) * (k + bit) <= x THEN ISqrtBits(x, k + bit, bit \div 2)
    ELSE ISqrtBits(x, k, bit \div 2)

MathSqrt(r) == Rat(ISqrtBits((r.n * 1000000) \div r.d, 0, 16384), 1000)

\* feats.sort((a, b) => b.score - a.score): a stable sort, best score first.
RECURSIVE InsertByScore(_, _)
InsertByScore(sorted, x) ==
    IF sorted = <<>> THEN <<x>>
    ELSE IF Head(sorted).score - x.score >= 0
         THEN <<Head(sorted)>> \o InsertByScore(Tail(sorted), x)
         ELSE <<x>> \o sorted

RECURSIVE SortByScore(_)
SortByScore(feats) ==
    IF feats = <<>> THEN <<>>
    ELSE InsertByScore(SortByScore(SubSeq(feats, 1, Len(feats) - 1)),
                       feats[Len(feats)])

\* sorted.filter(x => defensiveTickers.includes(x.ticker))
DefensiveOf(sorted, defensiveTickers) ==
    LET IsDef(x) == x.ticker \in defensiveTickers IN SelectSeq(sorted, IsDef)

\* sorted.filter(x => !defensiveTickers.includes(x.ticker))
RiskOf(sorted, defensiveTickers) ==
    LET IsRisk(x) == x.ticker \notin defensiveTickers IN SelectSeq(sorted, IsRisk)

\* The regime-dependent selection of buildSignals.
RegimeSelection(sorted, regime, topN, defensiveTickers) ==
    IF regime = "risk_off" THEN
        LET def == DefensiveOf(sorted, defensiveTickers)
        IN  Take(def, Max(1, Min(topN, Len(def))))
    ELSE IF regime = "caution" THEN
        LET def  == Take(DefensiveOf(sorted, defensiveTickers), Max(1, topN \div 2))
            risk == Take(RiskOf(sorted, defensiveTickers), Max(1, topN - Len(def)))
        IN  Take(def \o risk, topN)
    ELSE Take(sorted, topN)

\* A gate that only drops the weak members (a partial filter).
MomentumGatePartial(selected, sorted, topN, minMomentum, defensiveTickers) ==
    LET IsStrong(x) == ~(x.score < minMomentum)
    IN  SelectSeq(selected, IsStrong)

\* The minimum-momentum gate of buildSignals.
MomentumGate(selected, sorted, topN, minMomentum, defensiveTickers) ==
    LET IsWeak(x) == x.score < minMomentum
        weak      == SelectSeq(selected, IsWeak)
        fallback  == Take(DefensiveOf(sorted, defensiveTickers), topN)
    IN  IF Len(weak) > 0 /\ Len(fallback) > 0 THEN fallback ELSE selected

MinVol == Rat(5, 100)
MaxVol == Rat(150, 100)

\* ws.map(x => x / s)
RECURSIVE DivideAll(_, _)
DivideAll(ws, s) ==
    IF ws = <<>> THEN <<>> ELSE <<RDiv(Head(ws), s)>> \o DivideAll(Tail(ws), s)

\* const s = sum(ws) || 1; return ws.map(x => x / s)
NormalizeBySum(ws, s0) == DivideAll(ws, IF s0.n = 0 THEN RInt(1) ELSE s0)

\* Weights proportional to the volatility instead of its inverse.
invVolWeightsByVol(its) ==
    LET raw == [k \in 1..Len(its) |-> clamp(its[k].vol, MinVol, MaxVol)]
    IN  NormalizeBySum(raw, RSum(raw))

\* items.map(x => 1 / clamp(x.vol, minVol, maxVol))
RECURSIVE InverseVols(_)
InverseVols(its) ==
    IF its = <<>> THEN <<>>
    ELSE <<RDiv(RInt(1), clamp(Head(its).vol, MinVol, MaxVol))>> \o InverseVols(Tail(its))

\* function invVolWeights(items, minVol = 0.05, maxVol = 1.5)
invVolWeights(its) ==
    LET inv == InverseVols(its)
    IN  NormalizeBySum(inv, RSum(inv))

\* sum of baseW[i]^2 * selected[i].vol^2
RECURSIVE QuadSum(_, _)
QuadSum(selected, baseW) ==
    IF selected = <<>> THEN RInt(0)
    ELSE RAdd(RMul(RMul(Head(baseW), Head(baseW)),
                   RMul(Head(selected).vol, Head(selected).vol)),
              QuadSum(Tail(selected), Tail(baseW)))

\* portVol: the square root of the quadratic sum of weight x volatility.
PortVol(selected, baseW) == MathSqrt(QuadSum(selected, baseW))

\* scale = (portVol > 0 && targetVol > 0) ? clamp(targetVol / portVol, 0.5, 1.25) : 1
VolScale(portVol, targetVol) ==
    IF portVol.n > 0 /\ targetVol.n > 0
    THEN clamp(RDiv(targetVol, portVol), Rat(1, 2), Rat(5, 4))
    ELSE RInt(1)

\* baseW.map(x => x * scale)
RECURSIVE ScaleAll(_, _)
ScaleAll(ws, scale) ==
    IF ws = <<>> THEN <<>> ELSE <<RMul(Head(ws), scale)>> \o ScaleAll(Tail(ws), scale)

\* Final weights that are scaled to the volatility target and not re-normalized.
FinalWeightsScaledOnly(selected, targetVol) ==
    LET baseW == invVolWeights(selected)
    IN  ScaleAll(baseW, VolScale(PortVol(selected, baseW), targetVol))

\* finalW: the base weights scaled to the volatility target and re-normalized.
FinalWeights(selected, targetVol) ==
    LET baseW   == invVolWeights(selected)
        scaledW == ScaleAll(baseW, VolScale(PortVol(selected, baseW), targetVol))
    IN  NormalizeBySum(scaledW, RSum(scaledW))

\* Number(x.toFixed(4)), in units of 0.0001: the nearest, a tie going up.
ToFixed4(x) == (20000 * x.n + x.d) \div (2 * x.d)

\* The target list of buildSignals: [ticker, weight (in 0.0001), vol, score].
TargetOf(selected, targetVol) ==
    LET finalW == FinalWeights(selected, targetVol)
    IN  [k \in 1..Len(selected) |->
            [ticker |-> selected[k].ticker,
             weight |-> ToFixed4(finalW[k]),
             vol    |-> selected[k].vol,
             score  |-> selected[k].score]]

\* A replay that has no caution branch.
ReplayRegimeSelectionNoCaution(sorted, regime, topN, defensiveTickers) ==
    IF regime = "risk_off" THEN
        Take(DefensiveOf(sorted, defensiveTickers), topN)
    ELSE Take(sorted, topN)

\* The regime-dependent selection of computeWeightsAtDate (the replay).
ReplayRegimeSelection(sorted, regime, topN, defensiveTickers) ==
    IF regime = "risk_off" THEN
        Take(DefensiveOf(sorted, defensiveTickers), topN)
    ELSE IF regime = "caution" THEN
        LET def  == Take(DefensiveOf(sorted, defensiveTickers), Max(1, topN \div 2))
            risk == Take(RiskOf(sorted, defensiveTickers), Max(1, topN - Len(def)))
        IN  Take(def \o risk, topN)
    ELSE Take(sorted, topN)

\* The minimum-momentum gate of computeWeightsAtDate.
ReplayGate(selected, sorted, topN, minMomentum, defensiveTickers) ==
    LET fb == Take(DefensiveOf(sorted, defensiveTickers), topN)
    IN  IF (\E k \in 1..Len(selected) : selected[k].score < minMomentum) /\ Len(fb) > 0
        THEN fb ELSE selected

\* The weights map of computeWeightsAtDate: ticker -> unrounded weight.
WeightsAt(selected, targetVol) ==
    LET w == FinalWeights(selected, targetVol)
    IN  [t \in {selected[k].ticker : k \in 1..Len(selected)} |->
            w[CHOOSE k \in 1..Len(selected) : selected[k].ticker = t]]

----------------------------------------------------------------------------
(* Trade planner: computeTrades.  A holding is [ticker, shares,            *)
(* lastTradeDate] with lastTradeDate <<>> (null) or <<day>>; a target      *)
(* entry is [ticker, weight] with the weight in units of 0.0001; pricesNow *)
(* is a function from the priced tickers to their last close.              *)

\* The keys of `new Map()` after `h.set(x.ticker, x)` for every holding: each
\* ticker once, in the order of its first insertion.
RECURSIVE MapKeys(_)
MapKeys(entries) ==
    IF entries = <<>> THEN <<>>
    ELSE LET before == MapKeys(SubSeq(entries, 1, Len(entries) - 1))
             t == entries[Len(entries)].ticker
         IN  IF t \in SeqToSet(before) THEN before ELSE Append(before, t)

\* Map.get after the same insertions: the last entry set for the ticker.
MapGet(entries, t) ==
    entries[CHOOSE k \in 1..Len(entries) :
                /\ entries[k].ticker = t
                /\ \A j \in (k + 1)..Len(entries) : entries[j].ticker # t]

MapHas(entries, t) == \E k \in 1..Len(entries) : entries[k].ticker = t

\* pricesNow.get(t), with undefined read as 0 (`!px`, `|| 0`).
PriceOf(pricesNow, t) == IF t \in DOMAIN pricesNow THEN pricesNow[t] ELSE 0

\* `current`: the held tickers that have a positive price, in Map order.
CurrentTickers(holdings, pricesNow) ==
    LET Priced(t) == PriceOf(pricesNow, t) > 0
    IN  SelectSeq(MapKeys(holdings), Priced)

MarketValue(holdings, pricesNow, t) == MapGet(holdings, t).shares * PriceOf(pricesNow, t)

RECURSIVE SumValues(_, _, _)
SumValues(holdings, pricesNow, ts) ==
    IF ts = <<>> THEN 0
    ELSE MarketValue(holdings, pricesNow, Head(ts)) + SumValues(holdings, pricesNow, Tail(ts))

TotalValue(holdings, pricesNow) ==
    SumValues(holdings, pricesNow, CurrentTickers(holdings, pricesNow))

\* const effectiveCapital = Math.max(capital || 0, totalValue || 0, 0)
EffectiveCapital(capital, totalValue) == Max(Max(capital, totalValue), 0)

\* curW.get(ticker) || 0
CurW(holdings, pricesNow, t) ==
    LET totalValue == TotalValue(holdings, pricesNow)
    IN  IF t \in SeqToSet(CurrentTickers(holdings, pricesNow)) /\ totalValue > 0
        THEN Rat(MarketValue(holdings, pricesNow, t), totalValue)
        ELSE RInt(0)

\* tgtW.get(ticker) || 0
TgtW(target, t) ==
    IF MapHas(target, t) THEN Rat(MapGet(target, t).weight, 10000) ELSE RInt(0)

\* new Set([...curW.keys(), ...tgtW.keys()]) in iteration order.
AllTickers(target, holdings, pricesNow) ==
    LET cur == CurrentTickers(holdings, pricesNow)
        NotCur(t) == t \notin SeqToSet(cur)
    IN  cur \o SelectSeq(MapKeys(target), NotCur)

\* A threshold that also swallows a delta equal to it.
BelowNoTradeInclusive(absDelta, noTradePct) == RLe(absDelta, Rat(noTradePct, 100))

\* if (absDelta < (noTradePct / 100)) continue;
BelowNoTrade(absDelta, noTradePct) == RLt(absDelta, Rat(noTradePct, 100))

\* A minimum-holding rule that never blocks.
MinHoldBlocksNever(holdings, t, delta, minHoldDays, asOfDate) == FALSE

\* holding && delta < 0 && holding.lastTradeDate && daysHeld < minHoldDays
MinHoldBlocks(holdings, t, delta, minHoldDays, asOfDate) ==
    /\ MapHas(holdings, t)
    /\ delta.n < 0
    /\ MapGet(holdings, t).lastTradeDate # <<>>
    /\ asOfDate - MapGet(holdings, t).lastTradeDate[1] < minHoldDays

\* One pass of the loop over `all`: no entry (<<>>) or one entry.
TradeFor(a, ticker) ==
    LET cw    == CurW(a.holdings, a.pricesNow, ticker)
        tw    == TgtW(a.target, ticker)
        delta == RSub(tw, cw)
        price == PriceOf(a.pricesNow, ticker)
        effectiveCapital == EffectiveCapital(a.capital, TotalValue(a.holdings, a.pricesNow))
        shares == MathRound(RDiv(RMul(delta, RInt(effectiveCapital)), RInt(price)))
    IN  IF price <= 0 THEN <<>>
        ELSE IF BelowNoTrade(RAbs(delta), a.noTradePct) THEN <<>>
        ELSE IF MinHoldBlocks(a.holdings, ticker, delta, a.minHoldDays, a.asOfDate)
             THEN << [action |-> "HOLD", ticker |-> ticker, shares |-> 0,
                      price |-> price, estValue |-> 0] >>
        ELSE IF shares = 0 THEN <<>>
        ELSE << [action |-> IF shares > 0 THEN "BUY" ELSE "SELL", ticker |-> ticker,
                 shares |-> Abs(shares), price |-> price,
                 estValue |-> Abs(shares) * price] >>

\* The `trades` array before it is sorted.
RECURSIVE TradesOver(_, _)
TradesOver(a, ts) ==
    IF ts = <<>> THEN <<>> ELSE TradeFor(a, Head(ts)) \o TradesOver(a, Tail(ts))

TradesGenerated(a) == TradesOver(a, AllTickers(a.target, a.holdings, a.pricesNow))

\* A comparator that puts the SELL entries last.
TradeCmpReversed(x, y) ==
    (IF y.action = "SELL" THEN -1 ELSE 1) - (IF x.action = "SELL" THEN -1 ELSE 1)

\* (a, b) => (a.action === "SELL" ? -1 : 1) - (b.action === "SELL" ? -1 : 1)
TradeCmp(x, y) ==
    (IF x.action = "SELL" THEN -1 ELSE 1) - (IF y.action = "SELL" THEN -1 ELSE 1)

\* Array.prototype.sort with that comparator: a stable insertion sort.
RECURSIVE InsertTrade(_, _)
InsertTrade(sorted, x) ==
    IF sorted = <<>> THEN <<x>>
    ELSE IF TradeCmp(Head(sorted), x) <= 0
         THEN <<Head(sorted)>> \o InsertTrade(Tail(sorted), x)
         ELSE <<x>> \o sorted

RECURSIVE SortTrades(_)
SortTrades(ts) ==
    IF ts = <<>> THEN <<>>
    ELSE InsertTrade(SortTrades(SubSeq(ts, 1, Len(ts) - 1)), ts[Len(ts)])

\* function computeTrades(target, pricesNow, holdings, capital, noTradePct,
\*                        minHoldDays, asOfDate)
computeTrades(a) ==
    LET totalValue == TotalValue(a.holdings, a.pricesNow)
        generated  == TradesGenerated(a)
    IN  [done |-> TRUE,
         effectiveCapital |-> EffectiveCapital(a.capital, totalValue),
         totalValue |-> totalValue,
         generated |-> generated,
         trades |-> SortTrades(generated)]

----------------------------------------------------------------------------
(* Dates.  A date string "YYYY-MM-DD" is modelled by its day number, the   *)
(* days since 1970-01-01 (what `new Date(d + "T00:00:00Z") / 86400000`     *)
(* gives); the calendar fields are computed from it as Date does.          *)

\* The civil date [y, m, d] of a day number.
CivilFromDays(z0) ==
    LET z   == z0 + 719468
        era == z \div 146097
        doe == z - era * 146097
        yoe == (doe - doe \div 1460 + doe \div 36524 - doe \div 146096) \div 365
        doy == doe - (365 * yoe + yoe \div 4 - yoe \div 100)
        mp  == (5 * doy + 2) \div 153
        d   == doy - (153 * mp + 2) \div 5 + 1
        m   == IF mp < 10 THEN mp + 3 ELSE mp - 9
    IN  [y |-> yoe + era * 400 + (IF m <= 2 THEN 1 ELSE 0), m |-> m, d |-> d]

\* Date.UTC(y, m - 1, d) / 86400000
DaysFromCivil(y0, m, d) ==
    LET y   == IF m <= 2 THEN y0 - 1 ELSE y0
        era == y \div 400
        yoe == y - era * 400
        doy == (153 * (IF m > 2 THEN m - 3 ELSE m + 9) + 2) \div 5 + d - 1
        doe == yoe * 365 + yoe \div 4 - yoe \div 100 + doy
    IN  era * 146097 + doe - 719468

\* getUTCDay(): 0 = Sunday .. 6 = Saturday (1970-01-01 was a Thursday).
UTCDay(z) == (z + 4) % 7

\* d.slice(0, 7): the year and month of the date string.
YearMonth(z) == LET c == CivilFromDays(z) IN <<c.y, c.m>>

\* A week key that takes the year of the date itself, not of its Thursday.
isoWeekKeyOwnYear(z) ==
    LET tmp       == z + 4 - (IF UTCDay(z) = 0 THEN 7 ELSE UTCDay(z))
        year      == CivilFromDays(z).y
        yearStart == DaysFromCivil(CivilFromDays(tmp).y, 1, 1)
    IN  <<year, ((tmp - yearStart) + 1 + 6) \div 7>>

\* isoWeekKey(d): the year of the week's Thursday and the week number in it.
isoWeekKey(z) ==
    LET tmp       == z + 4 - (IF UTCDay(z) = 0 THEN 7 ELSE UTCDay(z))
        year      == CivilFromDays(tmp).y
        yearStart == DaysFromCivil(year, 1, 1)
    IN  <<year, ((tmp - yearStart) + 1 + 6) \div 7>>

\* The key of the period a date belongs to, by cadence.
PeriodKey(z, cadence) == IF cadence = "monthly" THEN YearMonth(z) ELSE isoWeekKey(z)

\* commonDates.slice().sort(): ascending.
RECURSIVE InsertDate(_, _)
InsertDate(sorted, x) ==
    IF sorted = <<>> THEN <<x>>
    ELSE IF Head(sorted) <= x THEN <<Head(sorted)>> \o InsertDate(Tail(sorted), x)
    ELSE <<x>> \o sorted

RECURSIVE SortDates(_)
SortDates(ds) ==
    IF ds = <<>> THEN <<>>
    ELSE InsertDate(SortDates(SubSeq(ds, 1, Len(ds) - 1)), ds[Len(ds)])

\* The loop of pickRebalanceDates from date k on: `cur` is curYM / curWeek,
\* `last` is lastInMonth / lastInWeek (<<>> for null), `out` the dates pushed.
RECURSIVE PickLoop(_, _, _, _, _, _)
PickLoop(dates, cadence, k, cur, last, out) ==
    IF k > Len(dates)
    THEN (IF last # <<>> THEN Append(out, last[1]) ELSE out)
    ELSE LET d   == dates[k]
             key == PeriodKey(d, cadence)
         IN  IF cur = <<>> THEN PickLoop(dates, cadence, k + 1, <<key>>, <<d>>, out)
             ELSE IF <<key>> # cur
                  THEN PickLoop(dates, cadence, k + 1, <<key>>, <<d>>, Append(out, last[1]))
                  ELSE PickLoop(dates, cadence, k + 1, cur, <<d>>, out)

\* function pickRebalanceDates(commonDates, cadence)
pickRebalanceDates(commonDates, cadence) ==
    LET dates == SortDates(commonDates)
    IN  IF Len(dates) < MinDates THEN <<>>
        ELSE PickLoop(dates, cadence, 1, <<>>, <<>>, <<>>)

----------------------------------------------------------------------------
(* Backtest helpers.  A series is a sequence of [date, close], ascending   *)
(* by date without duplicates, as the price-history contract requires.     *)

SeriesDates(series) == {series[k].date : k \in 1..Len(series)}

\* The dates every ticker from position k on has.
RECURSIVE DatesInAll(_, _, _)
DatesInAll(sbt, tickers, k) ==
    IF k = Len(tickers) THEN SeriesDates(sbt[tickers[k]])
    ELSE SeriesDates(sbt[tickers[k]]) \cap DatesInAll(sbt, tickers, k + 1)

\* first.filter(d => every other ticker has d)
KeepCommon(first, common) ==
    LET InAll(d) == d \in common
    IN  SelectSeq(first, InAll)

\* alignSeries: the dates every ticker has, ascending (the first ticker's
\* dates that every other ticker has too, then sorted).
CommonDates(sbt, tickers) ==
    KeepCommon([k \in 1..Len(sbt[tickers[1]]) |-> sbt[tickers[1]][k].date],
               DatesInAll(sbt, tickers, 1))

\* closeMap.get(t).get(d): the close of t on the common date d, 0 if missing.
CloseAt(sbt, t, d) ==
    IF \E k \in 1..Len(sbt[t]) : sbt[t][k].date = d
    THEN sbt[t][CHOOSE k \in 1..Len(sbt[t]) : sbt[t][k].date = d].close
    ELSE 0

\* series.findIndex(r => r.date === endDate), 1-based, 0 for "not found".
FindIndex(series, endDate) ==
    IF \E k \in 1..Len(series) : series[k].date = endDate
    THEN CHOOSE k \in 1..Len(series) :
            /\ series[k].date = endDate
            /\ \A j \in 1..(k - 1) : series[j].date # endDate
    ELSE 0

\* A window that always runs to the end of the series.
buildWindowSeriesToEnd(series, endDate, lookbackDays) ==
    LET endIdx   == Len(series)
        startIdx == Max(1, endIdx - (lookbackDays + 20))
    IN  SubSeq(series, startIdx, endIdx)

\* function buildWindowSeries(series, endDate, lookbackDays)
buildWindowSeries(series, endDate, lookbackDays) ==
    LET idx      == FindIndex(series, endDate)
        endIdx   == IF idx >= 1 THEN idx ELSE Len(series)
        startIdx == Max(1, endIdx - (lookbackDays + 20))
    IN  SubSeq(series, startIdx, endIdx)

\* The sub-series computeWeightsAtDate hands to detectRegime (SPY, 400 days
\* back) and to the feature functions (each universe ticker, 900 days back).
WindowsAt(date, sbt, universe) ==
    [t \in {SPY} \cup SeqToSet(universe) |->
        IF t = SPY THEN buildWindowSeries(sbt[t], date, SpyLookback)
        ELSE buildWindowSeries(sbt[t], date, FeatureLookback)]

\* detectRegime on a window: "unknown" below 200 closes; otherwise the trend
\* and volatility of the closes decide, which `view` stands for.
RegimeOf(window, view) ==
    IF Len(window) < SmaLong THEN "unknown" ELSE view.regime

\* The feature records of computeWeightsAtDate: one for every universe ticker
\* whose window has 260 points; score and volatility are what the momentum and
\* volatility functions make of the window, which `view` stands for.
RECURSIVE FeatsAt(_, _, _)
FeatsAt(windows, universe, view) ==
    IF universe = <<>> THEN <<>>
    ELSE LET t == Head(universe)
         IN  (IF Len(windows[t]) < MinHistory THEN <<>>
              ELSE << [ticker |-> t, score |-> view.score[t], vol |-> view.vol[t]] >>)
             \o FeatsAt(windows, Tail(universe), view)

\* function computeWeightsAtDate(date, seriesByTicker, universe, opts)
computeWeightsAtDate(date, sbt, universe, o, view) ==
    LET windows   == WindowsAt(date, sbt, universe)
        sorted    == SortByScore(FeatsAt(windows, universe, view))
        regimeSel == ReplayRegimeSelection(sorted, RegimeOf(windows[SPY], view),
                                           o.topN, o.defensiveTickers)
        selected  == ReplayGate(regimeSel, sorted, o.topN, o.minMomentum,
                                o.defensiveTickers)
    IN  [windows |-> windows, weights |-> WeightsAt(selected, o.targetVol)]

\* weights.get(t) || 0
WeightOf(w, t) == IF t \in DOMAIN w THEN w[t] ELSE RInt(0)

RECURSIVE RSumOver(_, _)
RSumOver(S, f) ==
    IF S = {} THEN RInt(0)
    ELSE LET x == CHOOSE y \in S : TRUE IN RAdd(f[x], RSumOver(S \ {x}, f))

\* turnover = 0.5 * sum over old and new tickers of |new - old|
Turnover(old, new) ==
    LET all == DOMAIN old \cup DOMAIN new
    IN  RMul(Rat(1, 2),
             RSumOver(all, [t \in all |-> RAbs(RSub(WeightOf(new, t), WeightOf(old, t)))]))

\* A slippage that falls back to 5 basis points when 0 is configured.
SlippageOrDefault(slippageBps, turnover) ==
    RMul(Rat(IF slippageBps = 0 THEN 5 ELSE slippageBps, 10000), turnover)

\* const slip = (opts.slippageBps / 10000) * turnover
Slippage(slippageBps, turnover) == RMul(Rat(slippageBps, 10000), turnover)

\* The strategy's return of one day: sum of w * (px / pxPrev - 1) over the
\* weights whose two closes are present (non-zero).
DayReturn(w, sbt, dPrev, d) ==
    RSumOver(DOMAIN w,
             [t \in DOMAIN w |->
                LET pxPrev == CloseAt(sbt, t, dPrev)
                    px     == CloseAt(sbt, t, d)
                IN  IF pxPrev # 0 /\ px # 0
                    THEN RMul(w[t], RSub(Rat(px, pxPrev), RInt(1)))
                    ELSE RInt(0)])

\* rSpy = (spyPrev && spyNow) ? (spyNow / spyPrev - 1) : 0
SpyReturn(sbt, dPrev, d) ==
    LET spyPrev == CloseAt(sbt, SPY, dPrev)
        spyNow  == CloseAt(sbt, SPY, d)
    IN  IF spyPrev # 0 /\ spyNow # 0 THEN RSub(Rat(spyNow, spyPrev), RInt(1)) ELSE RInt(0)

----------------------------------------------------------------------------
VARIABLES
    \* --- the price fetch of one plan request (mapLimit inside buildSignals)
    items,          \* uniqueTickers: the tickers to fetch, in order
    i,              \* mapLimit's shared cursor: how many items were taken
    workers,        \* per worker: pc and the (1-based) item it awaits
    seriesByTicker, \* the tickers whose series were stored
    pool,           \* Promise.all(workers): none / pending / fulfilled / rejected
    phase,          \* the request: received, fetching, computing, plan, error
    \* --- one allocation: the inputs of the selection and weighting
    feats,          \* the feature records, in universe order
    regime,         \* risk_on / caution / risk_off / unknown
    opts,           \* [topN, minMomentum, defensiveTickers, targetVol]
    live,           \* buildSignals: [done, regimeSel, selected, target]
    replay,         \* computeWeightsAtDate: [done, regimeSel, selected, weights]
    \* --- one call of computeTrades
    ctArgs,         \* its arguments
    ctRet,          \* its result, with the trades as generated before the sort
    \* --- one call of pickRebalanceDates
    prArgs,         \* [commonDates, cadence]
    prRet,          \* [done, out]
    \* --- one run of backtest(seriesByTicker, universe, opts)
    btArgs,         \* [seriesByTicker, universe, opts]
    btPc,           \* idle / start / loop / done
    dates,          \* commonDates.slice(260)
    rebDates,       \* new Set(pickRebalanceDates(dates, opts.cadence))
    day,            \* the loop index i (1-based: the loop starts at 2)
    weights,        \* the running weights: ticker -> weight
    equitySSE,      \* the strategy's equity multiplier
    equitySPY,      \* the benchmark's equity multiplier
    trades,         \* the number of active rebalances
    turnoverSum,    \* the sum of the turnovers
    handed,         \* the last rebalance: its date and the windows handed over
    daily,          \* the records {date, sse, spy} pushed so far
    recomputed,     \* the dates handed to computeWeightsAtDate, in call order
    \* --- one plan request: POST /api/plan
    body,           \* req.body: what the caller sent
    planPc,         \* idle / received / signals / trades / done / error
    planUniverse,   \* universe: the traded universe
    planDefensive,  \* defensiveTickers
    signals,        \* what buildSignals returned
    res,            \* the response: its status, target and trades
    \* --- invVolWeights on a list and on the list with one volatility halved
    ivArgs,         \* [items, k]
    ivRet           \* [done, base, halved]

fetchVars == <<items, i, workers, seriesByTicker, pool, phase>>
allocVars == <<feats, regime, opts, live, replay>>

tradeVars == <<ctArgs, ctRet>>

pickVars == <<prArgs, prRet>>

btVars == <<btArgs, btPc, dates, rebDates, day, weights, equitySSE, equitySPY,
            trades, turnoverSum, handed, daily, recomputed>>

planVars == <<body, planPc, planUniverse, planDefensive, signals, res>>

ivVars == <<ivArgs, ivRet>>

vars == <<fetchVars, allocVars, tradeVars, pickVars, btVars, planVars, ivVars>>

\* What the actions of one part leave alone: the variables of the others.
fetchOthers == <<allocVars, tradeVars, pickVars, btVars, planVars, ivVars>>
allocOthers == <<fetchVars, tradeVars, pickVars, btVars, planVars, ivVars>>
tradeOthers == <<fetchVars, allocVars, pickVars, btVars, planVars, ivVars>>
pickOthers == <<fetchVars, allocVars, tradeVars, btVars, planVars, ivVars>>
btOthers == <<fetchVars, allocVars, tradeVars, pickVars, planVars, ivVars>>
planOthers == <<fetchVars, allocVars, tradeVars, pickVars, btVars, ivVars>>
ivOthers == <<fetchVars, allocVars, tradeVars, pickVars, btVars, planVars>>

----------------------------------------------------------------------------
(* One allocation, live (buildSignals) and replayed (computeWeightsAtDate) *)

NoLive == [done |-> FALSE, regimeSel |-> <<>>, selected |-> <<>>, target |-> <<>>]
NoReplay == [done |-> FALSE, regimeSel |-> <<>>, selected |-> <<>>, weights |-> <<>>]

AllocIdle ==
    /\ feats = <<>>
    /\ regime = "unknown"
    /\ opts = [topN |-> 1, minMomentum |-> 0, defensiveTickers |-> {},
               targetVol |-> RInt(0)]
    /\ live = NoLive
    /\ replay = NoReplay

\* Lines 335-377 of buildSignals: sort, select, gate, weigh, round.
BuildSignalsAllocate ==
    /\ feats # <<>> \/ opts.defensiveTickers # {}
    /\ ~live.done
    /\ \E sorted \in {SortByScore(feats)} :
       \E regimeSel \in {RegimeSelection(sorted, regime, opts.topN,
                                         opts.defensiveTickers)} :
       \E selected \in {MomentumGate(regimeSel, sorted, opts.topN, opts.minMomentum,
                                     opts.defensiveTickers)} :
          live' = [done |-> TRUE, regimeSel |-> regimeSel, selected |-> selected,
                   target |-> TargetOf(selected, opts.targetVol)]
    /\ UNCHANGED <<feats, regime, opts, replay, allocOthers>>

\* Lines 475-502 of computeWeightsAtDate on the same features.
ComputeWeightsAllocate ==
    /\ live.done
    /\ ~replay.done
    /\ \E sorted \in {SortByScore(feats)} :
       \E regimeSel \in {ReplayRegimeSelection(sorted, regime, opts.topN,
                                               opts.defensiveTickers)} :
       \E selected \in {ReplayGate(regimeSel, sorted, opts.topN, opts.minMomentum,
                                   opts.defensiveTickers)} :
          replay' = [done |-> TRUE, regimeSel |-> regimeSel, selected |-> selected,
                     weights |-> WeightsAt(selected, opts.targetVol)]
    /\ UNCHANGED <<feats, regime, opts, live, allocOthers>>

\* The allocation universe of the model, in universe order.
AllocUniverse == <<"QQQ", "IWM", "TLT", "GLD">>

Scores == {-2, 3}
Regimes == {"risk_on", "caution", "risk_off", "unknown"}
DefensiveSets == {{"TLT"}, {"TLT", "GLD"}, {"QQQ", "IWM", "TLT"}}
TargetVols == {Rat(5, 100), Rat(30, 100)}

\* The volatilities of the universe, in universe order: all equal, some below
\* the 0.05 floor, some above the 1.5 cap.
VolProfiles ==
    { <<Rat(20, 100), Rat(20, 100), Rat(20, 100), Rat(20, 100)>>,
      <<Rat(2, 100), Rat(20, 100), Rat(10, 100), Rat(20, 100)>>,
      <<Rat(10, 100), Rat(10, 100), Rat(20, 100), Rat(200, 100)>> }

\* Every ticker either has too little history (no feature record) or a score.
FeatureLists ==
    LET Opt == {[has |-> FALSE, score |-> 0]}
                 \cup {[has |-> TRUE, score |-> sc] : sc \in Scores}
    IN  {LET Pick(k) == c[k].has
             idx == SelectSeq([k \in 1..Len(AllocUniverse) |-> k], Pick)
         IN  [j \in 1..Len(idx) |->
                [ticker |-> AllocUniverse[idx[j]], score |-> c[idx[j]].score,
                 vol |-> vp[idx[j]]]]
         : c \in [1..Len(AllocUniverse) -> Opt], vp \in VolProfiles}

AllocInit ==
    /\ feats \in FeatureLists
    /\ regime \in Regimes
    /\ opts \in [topN : 1..MaxTopN, minMomentum : {0},
                 defensiveTickers : DefensiveSets, targetVol : TargetVols]
    /\ live = NoLive
    /\ replay = NoReplay

AllocNext ==
    \/ BuildSignalsAllocate
    \/ ComputeWeightsAllocate

----------------------------------------------------------------------------
(* One call of computeTrades *)

NoRet == [done |-> FALSE, effectiveCapital |-> 0, totalValue |-> 0,
          generated |-> <<>>, trades |-> <<>>]

NoArgs == [target |-> <<>>, pricesNow |-> <<>>, holdings |-> <<>>, capital |-> 0,
           noTradePct |-> 0, minHoldDays |-> 0, asOfDate |-> 0]

TradeIdle ==
    /\ ctArgs = NoArgs
    /\ ctRet = NoRet

ComputeTrades ==
    /\ ctArgs # NoArgs
    /\ ~ctRet.done
    /\ ctRet' = computeTrades(ctArgs)
    /\ UNCHANGED <<ctArgs, tradeOthers>>

\* The as-of date of the trade model (a day number) and the last-trade dates
\* a holding may carry: none, three days before, thirty days before.
AsOfDay == 100
LastTradeDates == {<<>>, <<AsOfDay - 3>>, <<AsOfDay - 30>>}

TradeTargets ==
    { <<>>,
      <<[ticker |-> "QQQ", weight |-> 10000]>>,
      <<[ticker |-> "QQQ", weight |-> 7500], [ticker |-> "TLT", weight |-> 2500]>>,
      <<[ticker |-> "TLT", weight |-> 5000], [ticker |-> "IWM", weight |-> 5000]>>,
      <<[ticker |-> "IWM", weight |-> 3333], [ticker |-> "TLT", weight |-> 3333],
        [ticker |-> "QQQ", weight |-> 3333]>> }

\* The last closes of the universe; SPY is never priced (the handler prices
\* the universe only), and a close may be 0.
TradePrices ==
    { [t \in {"QQQ", "IWM", "TLT"} |-> CASE t = "QQQ" -> 10 [] t = "IWM" -> 20 [] OTHER -> 5],
      [t \in {"QQQ", "IWM", "TLT"} |-> CASE t = "QQQ" -> 10 [] t = "IWM" -> 0 [] OTHER -> 5] }

\* The holdings: each of QQQ, IWM, TLT absent or held (10 or 30 shares), SPY
\* absent or held, in this order.
HoldingLists ==
    LET Opt(t) == {<<>>}
                    \cup {<<[ticker |-> t, shares |-> 10, lastTradeDate |-> d]>> :
                             d \in LastTradeDates}
                    \cup {<<[ticker |-> t, shares |-> 30, lastTradeDate |-> <<AsOfDay - 30>>]>>}
        SpyOpt == {<<>>, <<[ticker |-> SPY, shares |-> 10, lastTradeDate |-> <<AsOfDay - 3>>]>>}
    IN  {q \o w \o t \o y : q \in Opt("QQQ"), w \in Opt("IWM"), t \in Opt("TLT"), y \in SpyOpt}

TradeInit ==
    /\ ctArgs \in [target : TradeTargets, pricesNow : TradePrices,
                   holdings : HoldingLists, capital : {0, 1000},
                   noTradePct : {0, 5, 25}, minHoldDays : {0, MaxMinHold},
                   asOfDate : {AsOfDay}]
    /\ ctRet = NoRet

TradeNext == ComputeTrades

----------------------------------------------------------------------------
(* One call of pickRebalanceDates *)

PickIdle ==
    /\ prArgs = [commonDates |-> <<>>, cadence |-> "none"]
    /\ prRet = [done |-> FALSE, out |-> <<>>]

PickRebalanceDates ==
    /\ prArgs.cadence # "none"
    /\ ~prRet.done
    /\ prRet' = [done |-> TRUE, out |-> pickRebalanceDates(prArgs.commonDates, prArgs.cadence)]
    /\ UNCHANGED <<prArgs, pickOthers>>

\* The ascending sequence of the members of a set of day numbers.
RECURSIVE Ascending(_)
Ascending(S) ==
    IF S = {} THEN <<>>
    ELSE LET m == CHOOSE x \in S : \A y \in S : x <= y
         IN  <<m>> \o Ascending(S \ {m})

CalendarWindow == CalendarStart..(CalendarStart + CalendarDays - 1)

PickInit ==
    /\ \E S \in SUBSET CalendarWindow, c \in {"monthly", "weekly"} :
          /\ S # {}
          /\ prArgs = [commonDates |-> Ascending(S), cadence |-> c]
    /\ prRet = [done |-> FALSE, out |-> <<>>]

PickNext == PickRebalanceDates

----------------------------------------------------------------------------
(* One run of backtest *)

NoHanded == [date |-> 0, windows |-> <<>>]

BtIdle ==
    /\ btArgs = [seriesByTicker |-> <<>>, universe |-> <<>>, opts |-> <<>>]
    /\ btPc = "idle"
    /\ dates = <<>>
    /\ rebDates = {}
    /\ day = 0
    /\ weights = <<>>
    /\ equitySSE = RInt(1)
    /\ equitySPY = RInt(1)
    /\ trades = 0
    /\ turnoverSum = RInt(0)
    /\ handed = NoHanded
    /\ daily = <<>>
    /\ recomputed = <<>>

\* The universe of the backtest model and what the feature functions may make
\* of a window.
BtUniverse == <<"QQQ", "TLT">>

MarketViews ==
    { [regime |-> "risk_on",
       score  |-> [t \in SeqToSet(BtUniverse) |-> IF t = "QQQ" THEN 3 ELSE -2],
       vol    |-> [t \in SeqToSet(BtUniverse) |-> Rat(20, 100)]],
      [regime |-> "risk_off",
       score  |-> [t \in SeqToSet(BtUniverse) |-> IF t = "QQQ" THEN -2 ELSE 3],
       vol    |-> [t \in SeqToSet(BtUniverse) |-> IF t = "QQQ" THEN Rat(20, 100) ELSE Rat(10, 100)]] }

\* Lines 506-520: align the series, drop the warm-up, pick the rebalance dates.
BacktestStart ==
    /\ btPc = "start"
    /\ \E commonDates \in {CommonDates(btArgs.seriesByTicker, <<SPY>> \o btArgs.universe)} :
       \E ds \in {SubSeq(commonDates, WarmUp + 1, Len(commonDates))} :
          /\ dates' = ds
          /\ rebDates' = SeqToSet(pickRebalanceDates(ds, btArgs.opts.cadence))
    /\ day' = 2
    /\ btPc' = "loop"
    /\ UNCHANGED <<btArgs, weights, equitySSE, equitySPY, trades, turnoverSum,
                   handed, daily, recomputed, btOthers>>

\* The accrual of one day, after the weights `w` and the strategy equity `eq`
\* of that day are settled (lines 541-556).
Accrue(w, eq) ==
    LET dPrev == dates[day - 1]
        d     == dates[day]
        sse   == RMul(eq, RAdd(RInt(1), DayReturn(w, btArgs.seriesByTicker, dPrev, d)))
        spy   == RMul(equitySPY, RAdd(RInt(1), SpyReturn(btArgs.seriesByTicker, dPrev, d)))
    IN  /\ equitySSE' = sse
        /\ equitySPY' = spy
        /\ daily' = Append(daily, [date |-> d, sse |-> sse, spy |-> spy])
        /\ day' = day + 1

\* One pass of the loop on a rebalance date: recompute the weights, charge
\* the slippage, then accrue the day.
BacktestRebalanceDay ==
    /\ btPc = "loop"
    /\ day <= Len(dates)
    /\ dates[day] \in rebDates
    /\ \E view \in MarketViews :
       \E at \in {computeWeightsAtDate(dates[day], btArgs.seriesByTicker,
                                       btArgs.universe, btArgs.opts, view)} :
       \E turnover \in {Turnover(weights, at.weights)} :
          LET slip == Slippage(btArgs.opts.slippageBps, turnover)
          IN  /\ handed' = [date |-> dates[day], windows |-> at.windows]
              /\ recomputed' = Append(recomputed, dates[day])
              /\ turnoverSum' = RAdd(turnoverSum, turnover)
              /\ trades' = IF RLt(Rat(1, 10000), turnover) THEN trades + 1 ELSE trades
              /\ weights' = at.weights
              /\ Accrue(at.weights, RMul(equitySSE, RSub(RInt(1), slip)))
    /\ UNCHANGED <<btArgs, btPc, dates, rebDates, btOthers>>

\* One pass of the loop on any other date: accrue the day.
BacktestPlainDay ==
    /\ btPc = "loop"
    /\ day <= Len(dates)
    /\ dates[day] \notin rebDates
    /\ Accrue(weights, equitySSE)
    /\ UNCHANGED <<btArgs, btPc, dates, rebDates, weights, trades, turnoverSum,
                   handed, recomputed, btOthers>>

\* The loop ends; the metrics are computed from `daily`.
BacktestEnd ==
    /\ btPc = "loop"
    /\ day > Len(dates)
    /\ btPc' = "done"
    /\ UNCHANGED <<btArgs, dates, rebDates, day, weights, equitySSE, equitySPY,
                   trades, turnoverSum, handed, daily, recomputed, btOthers>>

\* The closes: flat, with one or two jumps inside the simulated window.
CloseOf(t, z) ==
    CASE t = SPY   -> (IF z < CalendarStart + 5 THEN 100 ELSE 110)
      [] t = "QQQ" -> (IF z < CalendarStart + 3 THEN 50
                       ELSE IF z < CalendarStart + 8 THEN 55 ELSE 44)
      [] OTHER     -> (IF z < CalendarStart + 9 THEN 20 ELSE 25)

\* The days a series may lack: none, three in a row at the end of the warm-up,
\* or one in the simulated window.
Gaps == {{}, {CalendarStart - 7, CalendarStart - 6, CalendarStart - 5}, {CalendarStart + 6}}

\* The series of ticker t over the warm-up and the calendar window, without
\* the days in `missing`.
SeriesOf(t, missing) ==
    LET all  == [k \in 1..(WarmUp + CalendarDays) |-> CalendarStart - WarmUp + k - 1]
        Has(z) == z \notin missing
        days == SelectSeq(all, Has)
    IN  [k \in 1..Len(days) |-> [date |-> days[k], close |-> CloseOf(t, days[k])]]

BtInit ==
    /\ \E gap \in [{SPY} \cup SeqToSet(BtUniverse) -> Gaps],
          c \in {"monthly", "weekly"}, bps \in {0, 50}, n \in 1..2 :
          btArgs = [seriesByTicker |-> [t \in {SPY} \cup SeqToSet(BtUniverse) |->
                                           SeriesOf(t, gap[t])],
                    universe |-> BtUniverse,
                    opts |-> [cadence |-> c, topN |-> n, minMomentum |-> 0,
                              defensiveTickers |-> {"TLT"}, targetVol |-> Rat(12, 100),
                              slippageBps |-> bps]]
    /\ btPc = "start"
    /\ dates = <<>>
    /\ rebDates = {}
    /\ day = 0
    /\ weights = <<>>
    /\ equitySSE = RInt(1)
    /\ equitySPY = RInt(1)
    /\ trades = 0
    /\ turnoverSum = RInt(0)
    /\ handed = NoHanded
    /\ daily = <<>>
    /\ recomputed = <<>>

BtNext ==
    \/ BacktestStart
    \/ BacktestRebalanceDay
    \/ BacktestPlainDay
    \/ BacktestEnd

----------------------------------------------------------------------------
(* mapLimit and the fetch inside buildSignals *)

\* Array.from({ length: Math.max(1, limit) }, ...): the number of workers.
WorkerCountOffByOne(limit) == Max(1, limit) + 1

WorkerCount(limit) == Max(1, limit)

WorkerIds == 1..WorkerCount(PoolCap)

\* const uniqueTickers = Array.from(new Set([...universe, "SPY"]))
UniqueTickers(universe) ==
    IF SPY \in SeqToSet(universe) THEN universe ELSE Append(universe, SPY)

Awaiting == {w \in WorkerIds : workers[w].pc = "await"}

\* The fetches that have been started and have not settled.
InFlight == {workers[w].idx : w \in Awaiting}

\* Promise.allSettled instead of Promise.all: a rejection is swallowed.
PoolOutcomeAllSettled(ws) ==
    IF \A w \in DOMAIN ws : ws[w].pc \in {"done", "rejected"} THEN "fulfilled"
    ELSE "pending"

\* Promise.all(workers): rejects with the first rejection, fulfils when every
\* worker has returned.
PoolOutcome(ws) ==
    IF \E w \in DOMAIN ws : ws[w].pc = "rejected" THEN "rejected"
    ELSE IF \A w \in DOMAIN ws : ws[w].pc = "done" THEN "fulfilled"
    ELSE "pending"

\* The synchronous start of the workers: worker w runs `while (i < items.length)
\* { const idx = i++; ... await fn(...)` up to its first await, in order.
MapLimitStart ==
    /\ phase = "received"
    /\ workers' = [w \in WorkerIds |->
                     IF w <= Len(items) THEN [pc |-> "await", idx |-> w]
                     ELSE [pc |-> "done", idx |-> 0]]
    /\ i' = Min(Cardinality(WorkerIds), Len(items))
    /\ pool' = "pending"
    /\ phase' = "fetching"
    /\ UNCHANGED <<items, seriesByTicker, fetchOthers>>

\* tiingoPrices resolves for worker w: the series is stored, and the worker
\* takes the next item if one is left.
FetchResolve(w) ==
    /\ workers[w].pc = "await"
    /\ seriesByTicker' = seriesByTicker \cup {items[workers[w].idx]}
    /\ IF i < Len(items)
       THEN /\ workers' = [workers EXCEPT ![w] = [pc |-> "await", idx |-> i + 1]]
            /\ i' = i + 1
       ELSE /\ workers' = [workers EXCEPT ![w] = [pc |-> "done", idx |-> 0]]
            /\ i' = i
    /\ UNCHANGED <<items, pool, phase, fetchOthers>>

\* tiingoPrices throws for worker w (HTTP error, no data, missing token): the
\* worker's promise rejects; the other workers keep running.
FetchReject(w) ==
    /\ workers[w].pc = "await"
    /\ workers' = [workers EXCEPT ![w] = [pc |-> "rejected", idx |-> @.idx]]
    /\ UNCHANGED <<items, i, seriesByTicker, pool, phase, fetchOthers>>

\* await Promise.all(workers) settles (once).
PoolSettle ==
    /\ pool = "pending"
    /\ PoolOutcome(workers) # "pending"
    /\ pool' = PoolOutcome(workers)
    /\ UNCHANGED <<items, i, workers, seriesByTicker, phase, fetchOthers>>

\* buildSignals continues after the await: regime, features, allocation; then
\* the handler computes trades and the backtest.
CoreCompute ==
    /\ phase = "fetching"
    /\ pool = "fulfilled"
    /\ phase' = "computing"
    /\ UNCHANGED <<items, i, workers, seriesByTicker, pool, fetchOthers>>

\* res.json({...}) with the plan.
RespondPlan ==
    /\ phase = "computing"
    /\ phase' = "plan"
    /\ UNCHANGED <<items, i, workers, seriesByTicker, pool, fetchOthers>>

\* catch (e) { next(e) }: the error handler answers with the error.
RespondError ==
    /\ phase = "fetching"
    /\ pool = "rejected"
    /\ phase' = "error"
    /\ UNCHANGED <<items, i, workers, seriesByTicker, pool, fetchOthers>>

FetchIdle ==
    /\ items = <<>>
    /\ i = 0
    /\ workers = <<>>
    /\ seriesByTicker = {}
    /\ pool = "none"
    /\ phase = "idle"

FetchInit ==
    /\ \E n \in 1..MaxUniverse : items = UniqueTickers(SubSeq(EtfNames, 1, n))
    /\ i = 0
    /\ workers = [w \in WorkerIds |-> [pc |-> "idle", idx |-> 0]]
    /\ seriesByTicker = {}
    /\ pool = "none"
    /\ phase = "received"

FetchNext ==
    \/ MapLimitStart
    \/ \E w \in WorkerIds : FetchResolve(w)
    \/ \E w \in WorkerIds : FetchReject(w)
    \/ PoolSettle
    \/ CoreCompute
    \/ RespondPlan
    \/ RespondError

----------------------------------------------------------------------------
(* The plan request: POST /api/plan *)

\* String(t).toUpperCase().trim(), on the raw strings a request may carry.
UpperTrim(s) ==
    CASE s = "spy"   -> "SPY"
      [] s = " SPY " -> "SPY"
      [] s = "Spy"   -> "SPY"
      [] s = "qqq"   -> "QQQ"
      [] s = " tlt"  -> "TLT"
      [] s = "  "    -> ""
      [] OTHER       -> s

\* xs.map(t => String(t).toUpperCase().trim()).filter(Boolean)
NormalizeTickers(xs) ==
    LET NonEmpty(t) == t # ""
    IN  SelectSeq([k \in 1..Len(xs) |-> UpperTrim(xs[k])], NonEmpty)

\* Array.from(new Set(xs)): each element once, in the order of its first
\* occurrence.
RECURSIVE Dedupe(_)
Dedupe(xs) ==
    IF xs = <<>> THEN <<>>
    ELSE LET before == Dedupe(SubSeq(xs, 1, Len(xs) - 1))
         IN  IF xs[Len(xs)] \in SeqToSet(before) THEN before
             ELSE Append(before, xs[Len(xs)])

\* function defaultUniverse(mode)
defaultUniverse(mode) ==
    IF mode = "stocks"
    THEN <<"AAPL", "MSFT", "NVDA", "AMZN", "GOOGL", "META", "TSLA", "JPM", "XOM",
           "UNH", "COST", "AVGO", "LLY", "PEP", "HD">>
    ELSE <<SPY>> \o EtfNames

\* The requested universe before the reserved ticker is taken out.
RequestedUniverse(universeMode, customTickers) ==
    IF universeMode = "custom" THEN NormalizeTickers(customTickers)
    ELSE defaultUniverse(IF universeMode = "stocks" THEN "stocks" ELSE "etf")

\* A universe that only removes duplicates and keeps the reserved ticker.
ResolveUniverseKeepsSpy(universeMode, customTickers) ==
    Dedupe(RequestedUniverse(universeMode, customTickers))

\* universe = Array.from(new Set(universe)).filter(t => t && t !== "SPY")
ResolveUniverse(universeMode, customTickers) ==
    LET Tradable(t) == t # "" /\ t # SPY
    IN  SelectSeq(Dedupe(RequestedUniverse(universeMode, customTickers)), Tradable)

DefensiveCandidates == <<"TLT", "IEF", "SHY", "GLD", "USMV", "SPLV">>

\* function defaultDefensive(universe)
defaultDefensive(u) ==
    LET InUniverse(t) == t \in SeqToSet(u)
        out == SelectSeq(DefensiveCandidates, InUniverse)
    IN  IF Len(out) > 0 THEN out ELSE Take(u, Min(3, Len(u)))

\* The defensive tickers of the request: the caller's or the default ones,
\* cut down to the universe, the default ones again if nothing is left.
ResolveDefensive(requested, u) ==
    LET InUniverse(t) == t \in SeqToSet(u)
        first == IF Len(requested) > 0 THEN NormalizeTickers(requested)
                 ELSE defaultDefensive(u)
        kept  == SelectSeq(first, InUniverse)
    IN  IF Len(kept) = 0 THEN defaultDefensive(u) ELSE kept

\* function normalizeHoldings(holdings): the ticker upper-cased and trimmed,
\* the rows without a ticker dropped.
normalizeHoldings(rows) ==
    LET Named(h) == h.ticker # ""
    IN  SelectSeq([k \in 1..Len(rows) |->
                     [ticker |-> UpperTrim(rows[k].ticker), shares |-> rows[k].shares,
                      lastTradeDate |-> rows[k].lastTradeDate]], Named)

\* The feature records of buildSignals: one for every universe ticker whose
\* series has 260 points; score and volatility are what the momentum and
\* volatility functions make of the series, which `market` stands for.
RECURSIVE FeatsOf(_, _)
FeatsOf(u, market) ==
    IF u = <<>> THEN <<>>
    ELSE LET t == Head(u)
         IN  (IF market.length[t] < MinHistory THEN <<>>
              ELSE << [ticker |-> t, score |-> market.score[t], vol |-> market.vol[t]] >>)
             \o FeatsOf(Tail(u), market)

\* buildSignals after the fetch: regime, features, selection, gate, target.
SignalsOf(u, o, market) ==
    LET sorted    == SortByScore(FeatsOf(u, market))
        rg        == IF market.length[SPY] < SmaLong THEN "unknown" ELSE market.regime
        regimeSel == RegimeSelection(sorted, rg, o.topN, o.defensiveTickers)
        selected  == MomentumGate(regimeSel, sorted, o.topN, o.minMomentum,
                                  o.defensiveTickers)
    IN  [asOf |-> AsOfDay, regime |-> rg,
         target |-> TargetOf(selected, o.targetVol),
         fetched |-> SeqToSet(UniqueTickers(u)),
         close |-> [t \in SeqToSet(UniqueTickers(u)) |-> market.close[t]]]

\* Lines 656-661: the last close of every universe ticker that has a series.
PricesNow(u, sig) ==
    [t \in {x \in SeqToSet(u) : x \in sig.fetched} |-> sig.close[t]]

\* The custom ticker lists a caller may send.
CustomLists ==
    { <<>>, <<"spy">>, <<"  ", " SPY ">>, <<"SPY", "qqq", " tlt">>,
      <<"QQQ", "Spy", "IWM", "qqq">>, <<"IWM", "AAPL">> }

\* The defensive ticker lists a caller may send.
DefensiveLists == { <<>>, <<"spy">>, <<" tlt", "SPY">>, <<"GLD">> }

\* The holdings rows a caller may send (after the CSV is parsed).
HoldingRows ==
    LET Row(t, n, d) == [ticker |-> t, shares |-> n, lastTradeDate |-> d]
    IN  { <<>>,
          <<Row("SPY", 10, <<AsOfDay - 3>>)>>,
          <<Row("spy", 5, <<>>), Row("QQQ", 10, <<AsOfDay - 3>>)>>,
          <<Row(" tlt", 30, <<AsOfDay - 30>>), Row(" SPY ", 10, <<AsOfDay - 30>>)>>,
          <<Row("AAPL", 4, <<>>), Row("IWM", 10, <<>>)>> }

AllNames == SeqToSet(defaultUniverse("etf")) \cup SeqToSet(defaultUniverse("stocks"))

\* What the price provider holds: per ticker the length of the series and its
\* last close, and what regime, momentum and volatility come out of it.
PlanMarkets ==
    { [regime |-> "risk_on",
       length |-> [t \in AllNames |-> 300],
       close  |-> [t \in AllNames |-> IF t = SPY THEN 400 ELSE 10],
       score  |-> [t \in AllNames |-> IF t \in {"QQQ", "AAPL", "IWM"} THEN 3 ELSE -2],
       vol    |-> [t \in AllNames |-> Rat(20, 100)]],
      [regime |-> "risk_off",
       length |-> [t \in AllNames |-> IF t \in {"IWM", "MSFT"} THEN 100 ELSE 300],
       close  |-> [t \in AllNames |-> IF t = SPY THEN 400 ELSE 20],
       score  |-> [t \in AllNames |-> IF t \in {"TLT", "GLD"} THEN 3 ELSE -2],
       vol    |-> [t \in AllNames |-> IF t = "TLT" THEN Rat(10, 100) ELSE Rat(20, 100)]],
      [regime |-> "caution",
       length |-> [t \in AllNames |-> IF t = SPY THEN 150 ELSE 300],
       close  |-> [t \in AllNames |-> IF t = SPY THEN 400 ELSE 5],
       score  |-> [t \in AllNames |-> -2],
       vol    |-> [t \in AllNames |-> Rat(20, 100)]] }

NoBody == [universeMode |-> "", customTickers |-> <<>>, defensiveTickers |-> <<>>,
           holdings |-> <<>>, topN |-> 0, capital |-> 0, noTradePct |-> 0,
           minHoldDays |-> 0]
NoSignals == [asOf |-> 0, regime |-> "unknown", target |-> <<>>, fetched |-> {},
              close |-> <<>>]
NoResponse == [status |-> 0, target |-> <<>>, trades |-> <<>>]

PlanIdle ==
    /\ body = NoBody
    /\ planPc = "idle"
    /\ planUniverse = <<>>
    /\ planDefensive = <<>>
    /\ signals = NoSignals
    /\ res = NoResponse

\* Lines 611-652: the universe and the options are settled; an empty universe
\* throws (status 400) before anything is fetched.
PlanResolve ==
    /\ planPc = "received"
    /\ LET u == ResolveUniverse(body.universeMode, body.customTickers)
       IN  IF Len(u) = 0
           THEN /\ planPc' = "error"
                /\ res' = [status |-> 400, target |-> <<>>, trades |-> <<>>]
                /\ UNCHANGED <<planUniverse, planDefensive>>
           ELSE /\ planPc' = "signals"
                /\ planUniverse' = u
                /\ planDefensive' = ResolveDefensive(body.defensiveTickers, u)
                /\ res' = res
    /\ UNCHANGED <<body, signals, planOthers>>

\* await buildSignals(opts) fulfils: every series arrived, the signals are
\* computed from what the market holds.
PlanSignals ==
    /\ planPc = "signals"
    /\ \E market \in PlanMarkets :
          signals' = SignalsOf(planUniverse,
                               [topN |-> body.topN, minMomentum |-> 0,
                                defensiveTickers |-> SeqToSet(planDefensive),
                                targetVol |-> Rat(12, 100)],
                               market)
    /\ planPc' = "trades"
    /\ UNCHANGED <<body, planUniverse, planDefensive, res, planOthers>>

\* await buildSignals(opts) rejects (a fetch failed): next(e), no plan.
PlanSignalsFail ==
    /\ planPc = "signals"
    /\ planPc' = "error"
    /\ res' = [status |-> 500, target |-> <<>>, trades |-> <<>>]
    /\ UNCHANGED <<body, planUniverse, planDefensive, signals, planOthers>>

\* Lines 656-680: price the universe, compute the trades, answer.  (The
\* backtest between the two fills the `backtest` field only.)
PlanRespond ==
    /\ planPc = "trades"
    /\ \E tradePlan \in {computeTrades(
                            [target |-> signals.target,
                             pricesNow |-> PricesNow(planUniverse, signals),
                             holdings |-> normalizeHoldings(body.holdings),
                             capital |-> body.capital,
                             noTradePct |-> body.noTradePct,
                             minHoldDays |-> body.minHoldDays,
                             asOfDate |-> signals.asOf])} :
          res' = [status |-> 200, target |-> signals.target,
                  trades |-> tradePlan.trades]
    /\ planPc' = "done"
    /\ UNCHANGED <<body, planUniverse, planDefensive, signals, planOthers>>

PlanInit ==
    /\ body \in [universeMode : {"etf", "stocks", "custom"},
                 customTickers : CustomLists,
                 defensiveTickers : DefensiveLists,
                 holdings : HoldingRows,
                 topN : 1..2, capital : {0, 1000}, noTradePct : {5},
                 minHoldDays : {MaxMinHold}]
    /\ planPc = "received"
    /\ planUniverse = <<>>
    /\ planDefensive = <<>>
    /\ signals = NoSignals
    /\ res = NoResponse

PlanNext ==
    \/ PlanResolve
    \/ PlanSignals
    \/ PlanSignalsFail
    \/ PlanRespond

----------------------------------------------------------------------------
(* invVolWeights on its own: one list, and the same list with the          *)
(* volatility of item k halved.                                            *)

NoIvRet == [done |-> FALSE, base |-> <<>>, halved |-> <<>>]

IvIdle ==
    /\ ivArgs = [items |-> <<>>, k |-> 0]
    /\ ivRet = NoIvRet

\* its, with the volatility of item k halved.
HalvedAt(its, k) ==
    [j \in 1..Len(its) |->
        IF j = k THEN [ticker |-> its[j].ticker, vol |-> RMul(its[j].vol, Rat(1, 2))]
        ELSE its[j]]

InvVolWeightsTwice ==
    /\ ivArgs.k # 0
    /\ ~ivRet.done
    /\ ivRet' = [done |-> TRUE,
                 base |-> invVolWeights(ivArgs.items),
                 halved |-> invVolWeights(HalvedAt(ivArgs.items, ivArgs.k))]
    /\ UNCHANGED <<ivArgs, ivOthers>>

\* The volatilities of the model: below and at the 0.05 floor, just above
\* it, ordinary, below, at and above twice the 1.5 cap.
IvVols ==
    {Rat(2, 100), Rat(4, 100), Rat(5, 100), Rat(8, 100), Rat(20, 100),
     Rat(2, 1), Rat(3, 1), Rat(4, 1)}

IvInit ==
    /\ \E n \in 1..MaxItems : \E vs \in [1..n -> IvVols] : \E k \in 1..n :
          ivArgs = [items |-> [j \in 1..n |-> [ticker |-> EtfNames[j], vol |-> vs[j]]], k |-> k]
    /\ ivRet = NoIvRet

IvNext == InvVolWeightsTwice

----------------------------------------------------------------------------
(* Specifications: each runs one part of the program; the others are idle. *)

InitFetch == FetchInit /\ AllocIdle /\ TradeIdle /\ PickIdle /\ BtIdle /\ PlanIdle /\ IvIdle
SpecFetch == InitFetch /\ [][FetchNext]_vars

InitAlloc == AllocInit /\ FetchIdle /\ TradeIdle /\ PickIdle /\ BtIdle /\ PlanIdle /\ IvIdle
SpecAlloc == InitAlloc /\ [][AllocNext]_vars

InitTrade == TradeInit /\ FetchIdle /\ AllocIdle /\ PickIdle /\ BtIdle /\ PlanIdle /\ IvIdle
SpecTrade == InitTrade /\ [][TradeNext]_vars

InitPick == PickInit /\ FetchIdle /\ AllocIdle /\ TradeIdle /\ BtIdle /\ PlanIdle /\ IvIdle
SpecPick == InitPick /\ [][PickNext]_vars

InitBacktest == BtInit /\ FetchIdle /\ AllocIdle /\ TradeIdle /\ PickIdle /\ PlanIdle /\ IvIdle
SpecBacktest == InitBacktest /\ [][BtNext]_vars

InitPlan == PlanInit /\ FetchIdle /\ AllocIdle /\ TradeIdle /\ PickIdle /\ BtIdle /\ IvIdle
Spec == InitPlan /\ [][PlanNext]_vars

InitInvVol == IvInit /\ FetchIdle /\ AllocIdle /\ TradeIdle /\ PickIdle /\ BtIdle /\ PlanIdle
SpecInvVol == InitInvVol /\ [][IvNext]_vars

----------------------------------------------------------------------------
(* C1: every non-empty target allocation of buildSignals has non-negative  *)
(* weights that sum to 1 within 1e-6 (weights are in units of 0.0001, so   *)
(* the sum must be exactly 10000).                                         *)
RECURSIVE SumWeights(_)
SumWeights(target) ==
    IF target = <<>> THEN 0 ELSE Head(target).weight + SumWeights(Tail(target))

C1_WeightsSumToOne ==
    (live.done /\ Len(live.target) >= 1) =>
        /\ \A k \in 1..Len(live.target) : live.target[k].weight >= 0
        /\ SumWeights(live.target) = 10000

(* The trade planner's claims read the call's arguments and its result.    *)

CtDelta(t) == RSub(TgtW(ctArgs.target, t), CurW(ctArgs.holdings, ctArgs.pricesNow, t))
CtThreshold == Rat(ctArgs.noTradePct, 100)
CtTickers == {ctArgs.holdings[k].ticker : k \in 1..Len(ctArgs.holdings)}
                \cup {ctArgs.target[k].ticker : k \in 1..Len(ctArgs.target)}
CtPriced(t) == PriceOf(ctArgs.pricesNow, t) > 0
EntriesFor(t) == {k \in 1..Len(ctRet.trades) : ctRet.trades[k].ticker = t}
HasEntry(t, action) == \E k \in EntriesFor(t) : ctRet.trades[k].action = action

\* A held, priced ticker with a last-trade date, a negative delta and fewer
\* days held than the minimum.
HeldTooShort(t) ==
    /\ \E k \in 1..Len(ctArgs.holdings) :
          /\ ctArgs.holdings[k].ticker = t
          /\ ctArgs.holdings[k].lastTradeDate # <<>>
          /\ ctArgs.asOfDate - ctArgs.holdings[k].lastTradeDate[1] < ctArgs.minHoldDays
    /\ CtPriced(t)
    /\ CtDelta(t).n < 0

HoldsWithZeroShares(t) ==
    \E k \in EntriesFor(t) : ctRet.trades[k].action = "HOLD" /\ ctRet.trades[k].shares = 0

(* C2 as stated: a sell-direction delta inside the minimum holding period  *)
(* always yields a HOLD entry with zero shares, and never a SELL.          *)
C2_MinHoldAlwaysHolds ==
    ctRet.done =>
        \A t \in CtTickers : HeldTooShort(t) =>
            HoldsWithZeroShares(t) /\ ~HasEntry(t, "SELL")

(* C2 as amended: the HOLD entry is there when the delta is not below the  *)
(* no-trade threshold (below it the ticker gets no entry); never a SELL.   *)
C2_MinHoldHoldsOutsideNoTradeZone ==
    ctRet.done =>
        \A t \in CtTickers : HeldTooShort(t) =>
            /\ ~HasEntry(t, "SELL")
            /\ IF RLt(RAbs(CtDelta(t)), CtThreshold)
               THEN EntriesFor(t) = {}
               ELSE HoldsWithZeroShares(t) /\ Cardinality(EntriesFor(t)) = 1

C2_Witness ==
    /\ ctRet.done
    /\ ctArgs.noTradePct > 0
    /\ \E t \in CtTickers :
          /\ HeldTooShort(t)
          /\ HoldsWithZeroShares(t)
          /\ \E u \in CtTickers : u # t /\ HasEntry(u, "SELL")

(* C3 as stated: a delta of exactly 0, and a delta whose absolute value    *)
(* equals the no-trade threshold, get no entry.                            *)
C3_ZeroAndThresholdExcluded ==
    ctRet.done =>
        \A t \in CtTickers :
            (CtDelta(t).n = 0 \/ RAbs(CtDelta(t)) = CtThreshold) => EntriesFor(t) = {}

(* C3 as amended: a delta of exactly 0, and a delta strictly below the     *)
(* threshold, get no entry; a delta equal to a non-zero threshold is not   *)
(* excluded: a priced ticker whose delta is worth one share or more gets   *)
(* an entry.                                                               *)
C3_BelowThresholdExcluded ==
    ctRet.done =>
        \A t \in CtTickers :
            /\ CtDelta(t).n = 0 => EntriesFor(t) = {}
            /\ RLt(RAbs(CtDelta(t)), CtThreshold) => EntriesFor(t) = {}
            /\ ( /\ RAbs(CtDelta(t)) = CtThreshold
                 /\ ctArgs.noTradePct > 0
                 /\ CtPriced(t)
                 /\ RLe(RInt(PriceOf(ctArgs.pricesNow, t)),
                        RMul(RAbs(CtDelta(t)), RInt(ctRet.effectiveCapital))) )
               => EntriesFor(t) # {}

C3_Witness ==
    /\ ctRet.done
    /\ ctArgs.noTradePct > 0
    /\ \E t, u \in CtTickers :
          /\ RAbs(CtDelta(t)) = CtThreshold
          /\ HasEntry(t, "SELL")
          /\ RAbs(CtDelta(u)) = CtThreshold
          /\ HasEntry(u, "BUY")

(* C4: in the returned list every SELL precedes every BUY and HOLD, and    *)
(* each group keeps the order in which its entries were generated.         *)
C4_SellsFirstStable ==
    ctRet.done =>
        LET IsSell(x) == x.action = "SELL"
            NotSell(x) == x.action # "SELL"
        IN  ctRet.trades = SelectSeq(ctRet.generated, IsSell)
                              \o SelectSeq(ctRet.generated, NotSell)

C4_Witness ==
    /\ ctRet.done
    /\ Len(ctRet.generated) >= 3
    /\ ctRet.generated[1].action # "SELL"
    /\ ctRet.generated[3].action = "SELL"
    /\ ctRet.trades # ctRet.generated

(* C5: at every rebalance date d the backtest processes, the sub-series    *)
(* handed to regime detection (SPY) and to feature computation (every      *)
(* universe ticker) ends with the point dated d and holds no later point.  *)
C5_NoLookAhead ==
    handed.date # 0 =>
        \A t \in DOMAIN handed.windows :
            LET w == handed.windows[t]
            IN  /\ Len(w) >= 1
                /\ w[Len(w)].date = handed.date
                /\ \A k \in 1..Len(w) : w[k].date <= handed.date

C5_Witness ==
    /\ handed.date # 0
    /\ handed.date < dates[Len(dates)]
    /\ Len(handed.windows["QQQ"]) # Len(handed.windows[SPY])
    /\ \E t \in DOMAIN handed.windows :
          \E k \in 1..Len(btArgs.seriesByTicker[t]) :
              btArgs.seriesByTicker[t][k].date > handed.date

(* C6: the minimum-momentum gate.  A selection is "the top defensive       *)
(* instruments (up to topN) ranked by score" when it holds only defensive  *)
(* tickers, best score first, as many as topN allows, and no defensive     *)
(* instrument left out scores better than one taken.                       *)
HasWeak(sel) == \E k \in 1..Len(sel) : sel[k].score < opts.minMomentum

DefensiveFeats == {k \in 1..Len(feats) : feats[k].ticker \in opts.defensiveTickers}

IsTopDefensive(sel) ==
    /\ \A k \in 1..Len(sel) : sel[k].ticker \in opts.defensiveTickers
    /\ \A k \in 1..Len(sel) : \E j \in DefensiveFeats : feats[j].ticker = sel[k].ticker
    /\ \A j, k \in 1..Len(sel) : j < k =>
          /\ sel[j].score >= sel[k].score
          /\ sel[j].ticker # sel[k].ticker
    /\ Len(sel) = Min(opts.topN, Cardinality(DefensiveFeats))
    /\ \A j \in DefensiveFeats :
          (\A k \in 1..Len(sel) : sel[k].ticker # feats[j].ticker) =>
              \A k \in 1..Len(sel) : sel[k].score >= feats[j].score

\* The claim as stated: a weak member always means the defensive fallback.
C6_GateAlwaysFallsBack ==
    /\ (live.done /\ HasWeak(live.regimeSel)) => IsTopDefensive(live.selected)
    /\ (replay.done /\ HasWeak(replay.regimeSel)) => IsTopDefensive(replay.selected)

\* The claim as amended: the fallback replaces the selection when at least one
\* defensive instrument has features; otherwise the selection is kept.
C6_GateFallsBackWhenDefensiveExists ==
    /\ (live.done /\ HasWeak(live.regimeSel)) =>
          IF DefensiveFeats # {} THEN IsTopDefensive(live.selected)
          ELSE live.selected = live.regimeSel
    /\ (replay.done /\ HasWeak(replay.regimeSel)) =>
          IF DefensiveFeats # {} THEN IsTopDefensive(replay.selected)
          ELSE replay.selected = replay.regimeSel

C6_Witness ==
    /\ live.done
    /\ HasWeak(live.regimeSel)
    /\ \E k \in 1..Len(live.regimeSel) :
          live.regimeSel[k].ticker \notin opts.defensiveTickers
    /\ Len(live.selected) >= 2
    /\ live.selected # live.regimeSel

(* C7.  The last date of each period present in the sequence: the dates    *)
(* that no later date of the sequence shares a period with.  Two dates are *)
(* in one calendar month when year and month agree, and in one ISO week    *)
(* when they fall between the same Monday and Sunday.                      *)
MondayOf(z) == z - ((z + 3) % 7)

SamePeriod(x, y, cadence) ==
    IF cadence = "monthly"
    THEN CivilFromDays(x).y = CivilFromDays(y).y /\ CivilFromDays(x).m = CivilFromDays(y).m
    ELSE MondayOf(x) = MondayOf(y)

LastOfPeriods(ds, cadence) ==
    {x \in SeqToSet(ds) : \A y \in SeqToSet(ds) : y > x => ~SamePeriod(x, y, cadence)}

IsExactlyLastOfPeriods(out, ds, cadence) ==
    /\ SeqToSet(out) = LastOfPeriods(ds, cadence)
    /\ \A j, k \in 1..Len(out) : j < k => out[j] < out[k]
    /\ ds[Len(ds)] \in SeqToSet(out)

\* C7 as stated: for every non-empty ascending sequence.
C7_LastOfEachPeriod ==
    prRet.done =>
        IsExactlyLastOfPeriods(prRet.out, prArgs.commonDates, prArgs.cadence)

\* C7 as amended: for a sequence of at least 10 dates; a shorter one gives no
\* rebalance date at all.
C7_LastOfEachPeriodFromTenDates ==
    prRet.done =>
        IF Len(prArgs.commonDates) >= 10
        THEN IsExactlyLastOfPeriods(prRet.out, prArgs.commonDates, prArgs.cadence)
        ELSE prRet.out = <<>>

C7_Witness ==
    /\ prRet.done
    /\ prArgs.cadence = "weekly"
    /\ Len(prArgs.commonDates) >= 10
    /\ Len(prRet.out) = 3
    /\ prRet.out[1] = CalendarStart + 2

----------------------------------------------------------------------------
(* C11: with slippageBps = 0 no rebalance changes the strategy equity: in  *)
(* every pass of the loop the equity is multiplied by 1 + the sum, over    *)
(* the tickers held after the pass's rebalance, of weight x simple return  *)
(* of the day, and by nothing else; and a rebalance that recomputes the    *)
(* weights it already had adds no turnover and is not counted as active.   *)
HeldReturn(w, dPrev, d) ==
    RSumOver(DOMAIN w,
             [t \in DOMAIN w |->
                RMul(w[t], RSub(Rat(CloseAt(btArgs.seriesByTicker, t, d),
                                    CloseAt(btArgs.seriesByTicker, t, dPrev)),
                                RInt(1)))])

C11_ZeroSlippageTracksReturns ==
    [][(btPc = "loop" /\ btArgs.opts.slippageBps = 0 /\ day' = day + 1) =>
          /\ equitySSE' = RMul(equitySSE,
                               RAdd(RInt(1), HeldReturn(weights', dates[day - 1], dates[day])))
          /\ (dates[day] \in rebDates /\ weights' = weights) =>
                (turnoverSum' = turnoverSum /\ trades' = trades)]_vars

\* Two rebalances were processed, the second one recomputed the same weights,
\* and the equity has moved.
C11_Witness ==
    /\ btArgs.opts.slippageBps = 0
    /\ handed.date # 0
    /\ Cardinality({d \in rebDates : d <= handed.date /\ d # dates[1]}) >= 2
    /\ trades = 1
    /\ weights # <<>>
    /\ equitySSE # RInt(1)

----------------------------------------------------------------------------
(* C12 as stated: halving the volatility of one instrument, the others     *)
(* fixed, strictly increases its share of the inverse-volatility weights.  *)
C12_HalvingAlwaysIncreasesShare ==
    ivRet.done => RLt(ivRet.base[ivArgs.k], ivRet.halved[ivArgs.k])

\* The clamped volatility falls when the volatility is halved.
ClampedVolFalls(v) == RLt(MinVol, v) /\ RLt(RMul(v, Rat(1, 2)), MaxVol)

(* C12 as amended: in a list of two or more instruments, halving a         *)
(* volatility between 0.05 and 3.0 (both excluded) strictly increases the  *)
(* instrument's share; in a list of one, or with a volatility at or below  *)
(* 0.05 or at or above 3.0, the share stays what it was.                   *)
C12_HalvingIncreasesShareInsideClamp ==
    ivRet.done =>
        IF Len(ivArgs.items) >= 2 /\ ClampedVolFalls(ivArgs.items[ivArgs.k].vol)
        THEN RLt(ivRet.base[ivArgs.k], ivRet.halved[ivArgs.k])
        ELSE ivRet.halved[ivArgs.k] = ivRet.base[ivArgs.k]

C12_Witness ==
    /\ ivRet.done
    /\ Len(ivArgs.items) = 3
    /\ ivArgs.items[ivArgs.k].vol = Rat(8, 100)
    /\ RLt(ivRet.base[ivArgs.k], ivRet.halved[ivArgs.k])
    /\ \E j \in 1..3 : j # ivArgs.k /\ RLt(ivRet.halved[j], ivRet.base[j])

----------------------------------------------------------------------------
(* C13: on the same features, regime, topN, minMomentum and defensive      *)
(* subset, computeWeightsAtDate selects the same tickers in the same order *)
(* as buildSignals, before and after the momentum gate.                    *)
TickersOf(sel) == [k \in 1..Len(sel) |-> sel[k].ticker]

C13_ReplaySelectsAsLive ==
    replay.done =>
        /\ TickersOf(replay.regimeSel) = TickersOf(live.regimeSel)
        /\ TickersOf(replay.selected) = TickersOf(live.selected)

C13_Witness ==
    /\ replay.done
    /\ regime = "caution"
    /\ HasWeak(live.regimeSel)
    /\ Len(live.selected) >= 2
    /\ TickersOf(live.selected) # TickersOf(live.regimeSel)
    /\ TickersOf(replay.selected) = TickersOf(live.selected)

----------------------------------------------------------------------------
(* C16: the volatility-targeting scale never changes the weights: the      *)
(* weights of computeWeightsAtDate are the inverse-volatility base weights *)
(* of its selection, the target weights of buildSignals are those base     *)
(* weights rounded, and any other targetVol gives the same weights.        *)
BaseWeightOf(baseW, sel, t) == baseW[CHOOSE k \in 1..Len(sel) : sel[k].ticker = t]

----------------------------------------------------------------------------
(* C14: every SELL entry computeTrades returns has a share count no        *)
(* greater than the number of shares held of that ticker.                  *)
C14_SellWithinHoldings ==
    ctRet.done =>
        \A k \in 1..Len(ctRet.trades) :
            ctRet.trades[k].action = "SELL" =>
                /\ MapHas(ctArgs.holdings, ctRet.trades[k].ticker)
                /\ ctRet.trades[k].shares
                      <= MapGet(ctArgs.holdings, ctRet.trades[k].ticker).shares

----------------------------------------------------------------------------
(* C15: when the backtest has run, every date pickRebalanceDates returned  *)
(* for the post-warm-up dates was handed to computeWeightsAtDate exactly   *)
(* once, and no other date was.                                            *)
C15_EveryRebalanceDateRecomputesOnce ==
    btPc = "done" =>
        /\ \A d \in rebDates :
              Cardinality({k \in 1..Len(recomputed) : recomputed[k] = d}) = 1
        /\ \A k \in 1..Len(recomputed) : recomputed[k] \in rebDates

----------------------------------------------------------------------------
(* C8: the reserved ticker SPY is in no entry of the target allocation and *)
(* in no trade entry of a plan response, whatever universe was requested   *)
(* (a preset or a custom one that lists SPY) and whatever the caller holds *)
(* (SPY included).                                                         *)
C8_SpyNeverAllocatedNorTraded ==
    res.status = 200 =>
        /\ \A k \in 1..Len(res.target) : res.target[k].ticker # SPY
        /\ \A k \in 1..Len(res.trades) : res.trades[k].ticker # SPY

C8_Witness ==
    /\ res.status = 200
    /\ body.universeMode = "custom"
    /\ \E k \in 1..Len(body.customTickers) : UpperTrim(body.customTickers[k]) = SPY
    /\ \E k \in 1..Len(body.holdings) : UpperTrim(body.holdings[k].ticker) = SPY
    /\ Len(res.target) > 0
    /\ Len(res.trades) > 0

----------------------------------------------------------------------------
(* C9: core computation begins only after every ticker of universe + SPY   *)
(* was fetched successfully; a single failed fetch means no plan at all.   *)
C9_FetchAllBeforeCompute ==
    /\ phase \in {"computing", "plan"} =>
          /\ seriesByTicker = SeqToSet(items)
          /\ \A w \in WorkerIds : workers[w].pc = "done"
    /\ (\E w \in WorkerIds : workers[w].pc = "rejected") =>
          phase \notin {"computing", "plan"}

C9_Witness ==
    /\ phase = "plan"
    /\ Len(items) > PoolCap

(* C10: never more than the pool cap of fetches in flight.                 *)
C10_PoolCapRespected == Cardinality(InFlight) <= PoolCap

C10_Witness ==
    /\ Cardinality(InFlight) = PoolCap
    /\ i > PoolCap
    /\ Len(items) > PoolCap

====
